---- MODULE Spec2Model ----
(***************************************************************************)
(* The turn-taking and transcript-assembly engine of the shinychat widget  *)
(* (js/src/chat/chat.ts): the ChatContainer that owns the transcript and   *)
(* the ChatInput that gates submissions.  Text is a sequence of one-       *)
(* character strings, so that trim() and concatenation are computed.       *)
(***************************************************************************)
EXTENDS Naturals, Sequences, FiniteSets, TLC

\* ------------------------------------------------------------------ bounds
MaxMsgs    == 2   \* messages kept in the transcript
MaxContent == 2   \* characters in one message's content
MaxSent    == 1   \* submitted values recorded
MaxRun     == 3   \* continuation chunks recorded for one streamed message
MaxStream  == 5   \* characters in a streamed message's content (SpecStream)
MaxHeard   == 1   \* characters of confirmed speech kept in _finalTranscript
MaxStarts  == 2   \* raw-mode starts (getUserMedia requests) in one run
MaxInbound == 3   \* messages handed to the shinyChatMessage handler in one run
MaxRecognizers == 2   \* SpeechRecognition objects created in one run
MaxEnds    == 1   \* end events a recognizer fires while it is listening
MaxDictations == 1    \* dictation sessions in one run of SpecSubmit
MaxCopies  == 1   \* clipboard writes of copy buttons in flight
MaxAttach  == 2   \* times the container is attached to the document

\* ------------------------------------------------------------------- text
EmptyText == << >>
Hel       == <<"H", "e", "l">>
Lo        == <<"l", "o">>
Hello     == <<"H", "e", "l", "l", "o">>
Blank     == <<" ">>
M         == <<"m">>
A         == <<"a">>

\* contents carried by inbound messages and by chunks
MsgTexts    == {EmptyText, M}
ChunkTexts  == {EmptyText, A}
StreamTexts == {EmptyText, Hel, Lo}
\* what a user, a suggestion or update-user-input can put in the textarea
InputTexts  == {EmptyText, Blank, M}

IsSpace(c) == c = " "

RECURSIVE TrimStart(_)
TrimStart(t) ==
  IF t # << >> /\ IsSpace(Head(t)) THEN TrimStart(Tail(t)) ELSE t

RECURSIVE TrimEnd(_)
TrimEnd(t) ==
  IF t # << >> /\ IsSpace(t[Len(t)]) THEN TrimEnd(SubSeq(t, 1, Len(t) - 1)) ELSE t

\* String.prototype.trim
Trim(t) == TrimEnd(TrimStart(t))

\* --------------------------------------------------------------- the state
VARIABLES
  container,          \* ChatContainer: [messageActions, attached, updated,
                      \* attachEventListenersOnReconnect, listening,
                      \* boundOnExternalLinkClick, windowClick]
  messages,           \* children of <shiny-chat-messages>: [role, content, streaming,
                      \* contentType, messageActions, feedbackGiven, showMoreMenu]
  textarea,           \* ChatInput.textarea.value
  disabled,           \* ChatInput._disabled
  buttonDisabled,     \* ChatInput.button.disabled (the send button)
  isComposing,        \* ChatInput._isComposing
  sent,               \* values handed to Shiny.setInputValue(this.id, ...)
  isRecording,        \* ChatInput._isRecording
  speechRecognition,  \* ChatInput._speechRecognition is not null
  recognizers,        \* the SpeechRecognition objects created: [phase, onend,
                      \* started, ended]; the last one is _speechRecognition
  finalTranscript,    \* ChatInput._finalTranscript
  transcribedText,    \* ChatInput._transcribedText
  connected,          \* the ChatInput element is attached to the document
  audioInputMode,     \* ChatInput.audioInputMode: "transcribe" or "raw"
  speechSupported,    \* window.SpeechRecognition || window.webkitSpeechRecognition
  starts,             \* calls of #startRecording so far
  pendingMedia,       \* getUserMedia requests not yet settled
  streams,            \* the MediaStreams acquired: [live] (tracks not stopped)
  recorders,          \* the MediaRecorders created: [stream, phase, onstop,
                      \* mimeType, delivered]
  mediaRecorder,      \* ChatInput._mediaRecorder: index in recorders, 0 for null
  recorderTasks,      \* the recorders whose dataavailable and stop events are
                      \* queued, in the order they became inactive
  audioChunks,        \* ChatInput._audioChunks: the recorder each chunk came from
  timers,             \* the intervals created by setInterval: TRUE while running
  recordingTimer,     \* ChatInput._recordingTimer: index in timers, 0 for null
  readers,            \* the blobs of FileReader.readAsDataURL calls not yet ended
  audioSent,          \* blobs handed to Shiny.setInputValue(`${id}_audio`, ...)
  clipboard,          \* writeText promises of copy buttons not yet settled: the
                      \* message each belongs to
  actionsSent,        \* values handed to Shiny.setInputValue(`${id}_message_*`, ...)
                      \* by the handler that ran last
  received,           \* messages handed to the shinyChatMessage handler so far
  rendering,          \* handler calls suspended in await renderDependencies
  dispatched,         \* arrival numbers of the messages dispatched, in order
  activation,         \* history: the last suggestion activation, its modifier
                      \* keys and whether the textarea was focused
  last,               \* history: the handler that ran last and how it ended
  run                 \* history: the chunks of the streamed message in progress

vars == <<container, messages, textarea, disabled, buttonDisabled, isComposing, sent,
          isRecording, speechRecognition, recognizers, finalTranscript,
          transcribedText, connected, audioInputMode, speechSupported, starts, pendingMedia,
          streams, recorders, mediaRecorder, recorderTasks, audioChunks, timers, recordingTimer,
          readers, audioSent, clipboard, actionsSent, received, rendering, dispatched, activation,
          last, run>>

\* The part of the state the handlers read and write, as one record; thrown,
\* attempt and focus record what the handler did (an exception, a call of
\* #sendInput, a call of textarea.focus()).
Cur == [container |-> container,
        messages |-> messages, textarea |-> textarea, disabled |-> disabled,
        buttonDisabled |-> buttonDisabled, isComposing |-> isComposing,
        sent |-> sent,
        isRecording |-> isRecording, speechRecognition |-> speechRecognition,
        recognizers |-> recognizers,
        finalTranscript |-> finalTranscript, transcribedText |-> transcribedText,
        audioInputMode |-> audioInputMode, speechSupported |-> speechSupported,
        starts |-> starts, pendingMedia |-> pendingMedia, streams |-> streams,
        recorders |-> recorders, mediaRecorder |-> mediaRecorder,
        recorderTasks |-> recorderTasks,
        audioChunks |-> audioChunks, timers |-> timers,
        recordingTimer |-> recordingTimer, readers |-> readers,
        audioSent |-> audioSent, clipboard |-> clipboard,
        actionsSent |-> << >>,
        thrown |-> FALSE, attempt |-> "none", focus |-> FALSE]

Roles      == {"user", "assistant"}
ChunkTypes == {"message_start", "message_end", "null"}
Operations == {"append", "null"}

\* ------------------------------------------------------------- ChatInput
valueIsEmpty(st) == Len(Trim(st.textarea)) = 0

\* mutant: the button follows the text only
onInput_TextOnly(st) ==
  [st EXCEPT !.buttonDisabled = Len(Trim(st.textarea)) = 0]

onInput(st) ==
  [st EXCEPT !.buttonDisabled =
     IF st.disabled THEN TRUE ELSE Len(Trim(st.textarea)) = 0]

setDisabled(st, value) ==
  IF value = st.disabled THEN st
  ELSE onInput([st EXCEPT !.disabled = value])

\* ---------------------------------------------------------- ChatContainer
lastMessage(st) == st.messages[Len(st.messages)]

finalizeMessage(st) == setDisabled(st, FALSE)

\* mutant: the tail is kept whatever its content
removeLoadingMessage_Keep(st) == st

\* mutant: the tail is removed whatever its content
removeLoadingMessage_Always(st) ==
  IF st.messages # << >>
  THEN [st EXCEPT !.messages = SubSeq(@, 1, Len(@) - 1)]
  ELSE st

\* mutant: the first message is removed instead of the last
removeLoadingMessage_Head(st) ==
  IF st.messages # << >> /\ lastMessage(st).content = EmptyText
  THEN [st EXCEPT !.messages = Tail(@)]
  ELSE st

removeLoadingMessage(st) ==
  IF st.messages # << >> /\ lastMessage(st).content = EmptyText
  THEN [st EXCEPT !.messages = SubSeq(@, 1, Len(@) - 1)]
  ELSE st

initMessage(st) ==
  LET s1 == removeLoadingMessage(st)
  IN  IF ~s1.disabled THEN setDisabled(s1, TRUE) ELSE s1

\* a key of a message that may be absent
Attr(message, key, default) ==
  IF key \in DOMAIN message THEN message[key] ELSE default

\* createElement(CHAT_MESSAGE_TAG, attrs): the element's content, data-role,
\* content-type and message-actions attributes come from the message, the
\* properties without an attribute keep their defaults; the streaming
\* attribute is not set.
NewElement(message) ==
  [role |-> message.role, content |-> message.content, streaming |-> FALSE,
   contentType |-> Attr(message, "content_type", "markdown"),
   messageActions |-> Attr(message, "message_actions", ""),
   feedbackGiven |-> "null", showMoreMenu |-> FALSE]

\* messageAttrs of #appendMessage: a message-actions value of the container
\* is written over the message's
MessageAttrs(st, message) ==
  IF st.container.messageActions # ""
  THEN [message_actions |-> st.container.messageActions] @@ message
  ELSE message

\* mutant: the input is left disabled after the append
appendMessage_NoFinalize(st, message, finalize) ==
  LET s1 == initMessage(st)
  IN  [s1 EXCEPT !.messages = Append(@, NewElement(MessageAttrs(st, message)))]

appendMessage(st, message, finalize) ==
  LET s1 == initMessage(st)
      s2 == [s1 EXCEPT !.messages = Append(@, NewElement(MessageAttrs(st, message)))]
  IN  IF finalize THEN finalizeMessage(s2) ELSE s2

addLoadingMessage(st) ==
  [st EXCEPT !.messages =
     Append(@, NewElement([content |-> EmptyText, role |-> "assistant"]))]

\* mutant: no loading message follows the user's message
onInputSent_NoLoading(st, detail) == appendMessage(st, detail, TRUE)

onInputSent(st, detail) == addLoadingMessage(appendMessage(st, detail, TRUE))

\* mutant: the chunk is put in front of the content
ChunkContent_Prepend(old, message) ==
  IF message.operation = "append" THEN message.content \o old ELSE message.content

ChunkContent(old, message) ==
  IF message.operation = "append" THEN old \o message.content ELSE message.content

\* mutant: message_end does not finalize
appendMessageChunk_NoFinalize(st, message) ==
  LET s1 == IF message.chunk_type = "message_start"
            THEN appendMessage(st, message, FALSE) ELSE st
      n  == Len(s1.messages)
  IN  IF n = 0 THEN [s1 EXCEPT !.thrown = TRUE]
      ELSE IF message.chunk_type = "message_start"
      THEN [s1 EXCEPT !.messages[n].streaming = TRUE]
      ELSE LET s2 == [s1 EXCEPT !.messages[n].content =
                                    ChunkContent(s1.messages[n].content, message)]
           IN  IF message.chunk_type = "message_end"
               THEN [s2 EXCEPT !.messages[n].streaming = FALSE]
               ELSE s2

\* mutant: a chunk that finds no message creates one instead of throwing
appendMessageChunk_NoThrow(st, message) ==
  LET s1 == IF message.chunk_type = "message_start" \/ st.messages = << >>
            THEN appendMessage(st, message, FALSE) ELSE st
      n  == Len(s1.messages)
  IN  IF message.chunk_type = "message_start"
      THEN [s1 EXCEPT !.messages[n].streaming = TRUE]
      ELSE LET s2 == [s1 EXCEPT !.messages[n].content =
                                    ChunkContent(s1.messages[n].content, message)]
           IN  IF message.chunk_type = "message_end"
               THEN finalizeMessage([s2 EXCEPT !.messages[n].streaming = FALSE])
               ELSE s2

appendMessageChunk(st, message) ==
  LET s1 == IF message.chunk_type = "message_start"
            THEN appendMessage(st, message, FALSE) ELSE st
      n  == Len(s1.messages)
  IN  IF n = 0 THEN [s1 EXCEPT !.thrown = TRUE]
      ELSE IF message.chunk_type = "message_start"
      THEN [s1 EXCEPT !.messages[n].streaming = TRUE]
      ELSE LET s2 == [s1 EXCEPT !.messages[n].content =
                                    ChunkContent(s1.messages[n].content, message)]
           IN  IF message.chunk_type = "message_end"
               THEN finalizeMessage([s2 EXCEPT !.messages[n].streaming = FALSE])
               ELSE s2

\* mutant: clearing also re-enables the input
onClear_Finalize(st) == finalizeMessage([st EXCEPT !.messages = << >>])

onClear(st) == [st EXCEPT !.messages = << >>]

\* mutant: the loading message is removed but the input is left as it is
onRemoveLoadingMessage_NoFinalize(st) == removeLoadingMessage(st)

onRemoveLoadingMessage(st) == finalizeMessage(removeLoadingMessage(st))

\* ------------------------------------------- ChatContainer: the lifecycle
\* #addEventListeners: addEventListener does not register the same function
\* twice for one event, so the container's own listeners are there or not;
\* the window click listener is the bound function of the last attach
addEventListeners(st) ==
  [st EXCEPT !.container.attachEventListenersOnReconnect = TRUE,
             !.container.listening = TRUE,
             !.container.windowClick = @ \cup {st.container.boundOnExternalLinkClick}]

\* connectedCallback: this.#onExternalLinkClick.bind(this) is a new function
\* every time
connectedCallback(st) ==
  LET s1 == [st EXCEPT !.container.attached = TRUE,
                       !.container.boundOnExternalLinkClick = @ + 1]
  IN  IF s1.container.attachEventListenersOnReconnect
      THEN addEventListeners(s1) ELSE s1

\* firstUpdated, which the first update calls once; the shiny-chat-messages
\* child is there
firstUpdated(st) == addEventListeners([st EXCEPT !.container.updated = TRUE])

disconnectedCallback(st) ==
  [st EXCEPT !.container.attached = FALSE,
             !.container.attachEventListenersOnReconnect = TRUE,
             !.container.listening = FALSE,
             !.container.windowClick = @ \ {st.container.boundOnExternalLinkClick}]

\* ------------------------------------------- ChatInput: submitting a value
RECURSIVE setInputValue(_, _, _, _)
RECURSIVE sendInput(_, _)

\* this.textarea.focus()
Focus(st) == [st EXCEPT !.focus = TRUE]

\* mutant: the disabled state is not looked at
sendInput_IgnoreDisabled(st, focus) ==
  IF valueIsEmpty(st) THEN [st EXCEPT !.attempt = "rejected"]
  ELSE LET s1 == [st EXCEPT !.sent = Append(@, st.textarea), !.attempt = "sent"]
           s2 == onInputSent(s1, [content |-> st.textarea, role |-> "user"])
           s3 == setInputValue(s2, EmptyText, FALSE, FALSE)
           s4 == setDisabled(s3, TRUE)
       IN  IF focus THEN Focus(s4) ELSE s4

\* The dispatched shiny-chat-input-sent event bubbles to the container, whose
\* #onInputSent runs before dispatchEvent returns.
sendInput(st, focus) ==
  IF valueIsEmpty(st) THEN [st EXCEPT !.attempt = "rejected"]
  ELSE IF st.disabled THEN [st EXCEPT !.attempt = "rejected"]
  ELSE LET s1 == [st EXCEPT !.sent = Append(@, st.textarea), !.attempt = "sent"]
           s2 == onInputSent(s1, [content |-> st.textarea, role |-> "user"])
           s3 == setInputValue(s2, EmptyText, FALSE, FALSE)
           s4 == setDisabled(s3, TRUE)
       IN  IF focus THEN Focus(s4) ELSE s4

\* mutant: the submission is made before the value is written
setInputValue_SubmitFirst(st, value, submit, focus) ==
  LET s0 == IF submit THEN sendInput(st, FALSE) ELSE st
      s1 == onInput([s0 EXCEPT !.textarea = value])
  IN  IF focus THEN Focus(s1) ELSE s1

\* the options default to submit = false, focus = false
setInputValue(st, value, submit, focus) ==
  LET oldValue == st.textarea
      s1 == onInput([st EXCEPT !.textarea = value])
      s3 == IF submit
            THEN LET s2 == sendInput(s1, FALSE)
                 IN  IF oldValue # EmptyText
                     THEN setInputValue(s2, oldValue, FALSE, FALSE) ELSE s2
            ELSE s1
  IN  IF focus THEN Focus(s3) ELSE s3

\* mutant: a composition in progress is not looked at
onKeyDown_IgnoreComposition(st, isEnterCode, shiftKey) ==
  IF (isEnterCode /\ ~shiftKey) /\ ~valueIsEmpty(st)
  THEN sendInput(st, TRUE) ELSE st

onKeyDown(st, isEnterCode, shiftKey) ==
  IF (isEnterCode /\ ~shiftKey) /\ ~st.isComposing /\ ~valueIsEmpty(st)
  THEN sendInput(st, TRUE) ELSE st

\* ------------------------------------------------- ChatContainer: producers
onUpdateUserInput(st, hasValue, value, submit, focus) ==
  IF hasValue THEN setInputValue(st, value, submit, focus) ELSE st

\* #getSuggestion yields the element's text and its own submit flag; an empty
\* suggestion returns before anything is done.
\* mutant: the secondary modifier is looked at first
shouldSubmit_AltFirst(submit, metaKey, ctrlKey, altKey) ==
  IF altKey THEN FALSE ELSE IF metaKey \/ ctrlKey THEN TRUE ELSE submit

shouldSubmit(submit, metaKey, ctrlKey, altKey) ==
  IF metaKey \/ ctrlKey THEN TRUE ELSE IF altKey THEN FALSE ELSE submit

onInputSuggestionEvent(st, suggestion, submit, metaKey, ctrlKey, altKey) ==
  IF suggestion = EmptyText THEN st
  ELSE setInputValue(st, suggestion, shouldSubmit(submit, metaKey, ctrlKey, altKey),
                     ~shouldSubmit(submit, metaKey, ctrlKey, altKey))

\* ------------------------------------------- ChatInput: transcribe capture
\* raw mode: the call runs up to await getUserMedia and returns
startRecording(st) ==
  [st EXCEPT !.starts = @ + 1, !.pendingMedia = @ + 1]

\* the type #startRecording asks for; MediaRecorder.isTypeSupported gives the
\* same answers for every recorder of a page
MimeType == "audio/webm;codecs=opus"

\* getUserMedia resolved: the rest of #startRecording; created tells whether
\* new MediaRecorder(stream, ...) returned or threw into the catch
startRecordingResume(st, created) ==
  LET s1 == [st EXCEPT !.pendingMedia = @ - 1,
                       !.streams = Append(@, [live |-> TRUE])]
  IN  IF ~created THEN s1
      ELSE [s1 EXCEPT
             !.recorders = Append(@, [stream |-> Len(s1.streams),
                                      phase |-> "recording", onstop |-> "release",
                                      mimeType |-> MimeType, delivered |-> FALSE]),
             !.mediaRecorder = Len(s1.recorders) + 1,
             !.audioChunks = << >>,
             !.isRecording = TRUE,
             !.timers = Append(@, TRUE),
             !.recordingTimer = Len(s1.timers) + 1]

\* mutant: the capturing flag is set before the microphone is asked for
startRecordingFailed_Flag(st) ==
  [st EXCEPT !.pendingMedia = @ - 1, !.isRecording = TRUE]

\* getUserMedia rejected: the catch of #startRecording
startRecordingFailed(st) == [st EXCEPT !.pendingMedia = @ - 1]

\* a new SpeechRecognition with its onend handler set, started
NewRecognizer == [phase |-> "listening", onend |-> TRUE, started |-> 1, ended |-> 0]

\* mutant: a recognizer is started whether the platform has one or not
startTranscription_NoFallback(st) ==
  [st EXCEPT !.speechRecognition = TRUE,
             !.recognizers = Append(@, NewRecognizer),
             !.finalTranscript = EmptyText,
             !.transcribedText = EmptyText, !.isRecording = TRUE]

startTranscription(st) ==
  IF ~st.speechSupported THEN startRecording(st)
  ELSE [st EXCEPT !.speechRecognition = TRUE,
                  !.recognizers = Append(@, NewRecognizer),
                  !.finalTranscript = EmptyText,
                  !.transcribedText = EmptyText, !.isRecording = TRUE]

\* the loop of onresult over event.results[resultIndex ..]
RECURSIVE ResultFinals(_)
ResultFinals(results) ==
  IF results = << >> THEN EmptyText
  ELSE (IF Head(results).isFinal THEN Head(results).transcript ELSE EmptyText)
         \o ResultFinals(Tail(results))

RECURSIVE ResultInterim(_)
ResultInterim(results) ==
  IF results = << >> THEN EmptyText
  ELSE (IF Head(results).isFinal THEN EmptyText ELSE Head(results).transcript)
         \o ResultInterim(Tail(results))

onresult(st, results) ==
  LET final == st.finalTranscript \o ResultFinals(results)
  IN  [st EXCEPT !.finalTranscript = final,
                 !.transcribedText = Trim(final \o ResultInterim(results))]

\* recorder r becomes inactive: one task is queued that fires its
\* dataavailable and then its stop event
Inactivate(st, r) ==
  [st EXCEPT !.recorders[r].phase = "data", !.recorderTasks = Append(@, r)]

\* MediaRecorder.stop() on this._mediaRecorder; nothing is done on a recorder
\* that is inactive already
RecorderStop(st) ==
  IF st.recorders[st.mediaRecorder].phase = "recording"
  THEN Inactivate(st, st.mediaRecorder) ELSE st

\* stream.getTracks().forEach((track) => track.stop()): a recorder that records
\* the stream becomes inactive when all its tracks have ended
RECURSIVE InactivateOn(_, _, _)
InactivateOn(st, s, r) ==
  IF r > Len(st.recorders) THEN st
  ELSE InactivateOn(IF st.recorders[r].stream = s /\ st.recorders[r].phase = "recording"
                    THEN Inactivate(st, r) ELSE st,
                    s, r + 1)

StopTracks(st, s) == InactivateOn([st EXCEPT !.streams[s].live = FALSE], s, 1)

\* this._speechRecognition.start() in the onend handler: the recognizer
\* listens again
RecognizerStart(st) ==
  IF ~st.speechRecognition THEN st
  ELSE [st EXCEPT !.recognizers[Len(st.recognizers)].phase = "listening",
                  !.recognizers[Len(st.recognizers)].started = @ + 1]

\* the onend handler set by #startTranscription
onend(st) == IF st.isRecording THEN RecognizerStart(st) ELSE st

\* recognizer k fires end: its onend handler runs if one is set
RecognizerEnded(st, k) ==
  LET s1 == [st EXCEPT !.recognizers[k].phase = "ended",
                       !.recognizers[k].ended = @ + 1]
  IN  IF st.recognizers[k].onend THEN onend(s1) ELSE s1

\* mutant: the onend handler is left on the stopped recognizer
RecognizerStop_KeepOnend(st) ==
  [st EXCEPT !.recognizers[Len(st.recognizers)].phase =
               IF @ = "listening" THEN "stopping" ELSE @]

\* onend = null and stop() on this._speechRecognition: its end event is
\* fired later
RecognizerStop(st) ==
  [st EXCEPT !.recognizers[Len(st.recognizers)].onend = FALSE,
             !.recognizers[Len(st.recognizers)].phase =
               IF @ = "listening" THEN "stopping" ELSE @]

\* mutant: the confirmed speech is submitted, not the displayed text
stopRecording_FinalOnly(st, cancel) ==
  IF st.speechRecognition
  THEN LET s1 == [RecognizerStop(st) EXCEPT !.speechRecognition = FALSE]
           s2 == IF ~cancel /\ Trim(s1.finalTranscript) # EmptyText
                 THEN setInputValue(s1, Trim(s1.finalTranscript), TRUE, TRUE)
                 ELSE s1
       IN  [s2 EXCEPT !.isRecording = FALSE, !.transcribedText = EmptyText]
  ELSE IF st.mediaRecorder = 0 \/ ~st.isRecording THEN st
  ELSE LET s1 == IF st.recordingTimer # 0
                 THEN [st EXCEPT !.timers[st.recordingTimer] = FALSE,
                                 !.recordingTimer = 0]
                 ELSE st
       IN  IF cancel
           THEN [RecorderStop(s1) EXCEPT !.isRecording = FALSE, !.audioChunks = << >>]
           ELSE LET s2 == [s1 EXCEPT !.recorders[s1.mediaRecorder].onstop = "process"]
                IN  [RecorderStop(s2) EXCEPT !.isRecording = FALSE]

\* mutant: a cancelled recorder gets the stop handler that sends
stopRecording_CancelSends(st, cancel) ==
  IF st.speechRecognition
  THEN LET s1 == [RecognizerStop(st) EXCEPT !.speechRecognition = FALSE]
           s2 == IF ~cancel /\ Trim(s1.transcribedText) # EmptyText
                 THEN setInputValue(s1, Trim(s1.transcribedText), TRUE, TRUE)
                 ELSE s1
       IN  [s2 EXCEPT !.isRecording = FALSE, !.transcribedText = EmptyText]
  ELSE IF st.mediaRecorder = 0 \/ ~st.isRecording THEN st
  ELSE LET s1 == IF st.recordingTimer # 0
                 THEN [st EXCEPT !.timers[st.recordingTimer] = FALSE,
                                 !.recordingTimer = 0]
                 ELSE st
           s2 == [s1 EXCEPT !.recorders[s1.mediaRecorder].onstop = "process"]
       IN  [RecorderStop(s2) EXCEPT !.isRecording = FALSE]

stopRecording(st, cancel) ==
  IF st.speechRecognition
  THEN LET s1 == [RecognizerStop(st) EXCEPT !.speechRecognition = FALSE]
           s2 == IF ~cancel /\ Trim(s1.transcribedText) # EmptyText
                 THEN setInputValue(s1, Trim(s1.transcribedText), TRUE, TRUE)
                 ELSE s1
       IN  [s2 EXCEPT !.isRecording = FALSE, !.transcribedText = EmptyText]
  ELSE IF st.mediaRecorder = 0 \/ ~st.isRecording THEN st
  ELSE LET s1 == IF st.recordingTimer # 0
                 THEN [st EXCEPT !.timers[st.recordingTimer] = FALSE,
                                 !.recordingTimer = 0]
                 ELSE st
       IN  IF cancel
           THEN [RecorderStop(s1) EXCEPT !.isRecording = FALSE, !.audioChunks = << >>]
           ELSE LET s2 == [s1 EXCEPT !.recorders[s1.mediaRecorder].onstop = "process"]
                IN  [RecorderStop(s2) EXCEPT !.isRecording = FALSE]

\* mutant: an error ends the session as an explicit stop does
onerror_Submit(st) == stopRecording(st, FALSE)

\* the onerror handler set by #startTranscription
onerror(st) == stopRecording(st, TRUE)

toggleRecording(st) ==
  IF st.isRecording THEN stopRecording(st, FALSE)
  ELSE IF st.audioInputMode = "transcribe" THEN startTranscription(st)
  ELSE startRecording(st)

\* recorder r fires dataavailable: its ondataavailable pushes non-empty data
ondataavailable(st, r, hasData) ==
  [st EXCEPT !.recorders[r].phase = "stop",
             !.recorders[r].delivered = hasData,
             !.audioChunks = IF hasData THEN Append(@, r) ELSE @]

\* #sendAudioData up to reader.readAsDataURL(blob)
sendAudioData(st, blob) == [st EXCEPT !.readers = Append(@, blob)]

\* new Blob(this._audioChunks, { type: mimeType }) in the stop callback of
\* recorder r, with the format handed to #sendAudioData
AudioBlob(st, r) ==
  [chunks |-> st.audioChunks,
   format |-> IF st.mediaRecorder # 0
              THEN st.recorders[st.mediaRecorder].mimeType ELSE "audio/webm",
   by |-> r]

\* recorder r fires stop: the onstop set by #startRecording releases the
\* stream it was created with, the one set by #stopRecording releases the
\* stream of this._mediaRecorder and sends what was recorded
onstop(st, r) ==
  LET s1 == [st EXCEPT !.recorders[r].phase = "done"]
  IN  IF st.recorders[r].onstop = "release"
      THEN StopTracks(s1, st.recorders[r].stream)
      ELSE LET s2 == IF s1.mediaRecorder # 0
                     THEN StopTracks(s1, s1.recorders[s1.mediaRecorder].stream)
                     ELSE s1
               s3 == IF Len(s2.audioChunks) > 0
                     THEN sendAudioData(s2, AudioBlob(s2, r)) ELSE s2
           IN  [s3 EXCEPT !.audioChunks = << >>]

\* onloadend of reader i: window.Shiny.setInputValue is there, the value is sent
onloadend(st, i) ==
  [st EXCEPT !.readers = SubSeq(@, 1, i - 1) \o SubSeq(@, i + 1, Len(@)),
             !.audioSent = Append(@, st.readers[i])]

\* ------------------------------------------------ ChatMessage: the actions
ALL_MESSAGE_ACTIONS == {"copy", "feedback", "regenerate", "share", "more"}

\* the values of a message-actions attribute that are looked at: they are
\* trimmed and in lower case already
ActionSpecs == {"", "none", "all", "copy"}

\* actionsAttr.split(",").map((a) => a.trim())
ActionNames(actionsAttr) == IF actionsAttr = "copy" THEN {"copy"} ELSE {}

isActionEnabled(actionsAttr, action) ==
  IF actionsAttr = "" \/ actionsAttr = "none" THEN FALSE
  ELSE IF actionsAttr = "all" THEN TRUE
  ELSE action \in ActionNames(actionsAttr)

\* #messageActions renders the buttons for an assistant message that is not
\* streaming and has content (message-actions enables them)
hasActions(st, i) ==
  /\ st.messages[i].role = "assistant"
  /\ ~st.messages[i].streaming
  /\ Trim(st.messages[i].content) # EmptyText
  /\ \E a \in ALL_MESSAGE_ACTIONS : isActionEnabled(st.messages[i].messageActions, a)

\* the position among the shiny-chat-message elements of the parent, from 0
\* (#appendMessage creates every message, of either role, with that tag)
getMessageIndex(st, i) == i - 1

MessageDetail(st, i) ==
  [messageIndex |-> getMessageIndex(st, i), content |-> st.messages[i].content,
   feedback |-> "none"]

\* ChatContainer: the four listeners forward the detail to a Shiny input
setActionInput(st, name, detail) ==
  [st EXCEPT !.actionsSent = Append(@, [input |-> name, detail |-> detail])]

onMessageCopy(st, detail) == setActionInput(st, "message_copy", detail)

onMessageFeedback(st, detail) == setActionInput(st, "message_feedback", detail)

onMessageRegenerate(st, detail) == setActionInput(st, "message_regenerate", detail)

onMessageShare(st, detail) == setActionInput(st, "message_share", detail)

\* navigator.clipboard.writeText(text).then(...): the promise is pending
onCopyClick(st, i) == [st EXCEPT !.clipboard = Append(@, i)]

\* the promise of copy k is fulfilled: the copy event is dispatched
onCopied(st, k) ==
  LET i  == st.clipboard[k]
      s1 == [st EXCEPT !.clipboard = SubSeq(@, 1, k - 1) \o SubSeq(@, k + 1, Len(@))]
  IN  onMessageCopy(s1, MessageDetail(s1, i))

\* the promise of copy k is rejected: there is no handler for that
onCopyFailed(st, k) ==
  [st EXCEPT !.clipboard = SubSeq(@, 1, k - 1) \o SubSeq(@, k + 1, Len(@))]

\* variant: the feedback event is dispatched whatever the toggle gives
onFeedbackClick_AlwaysEmit(st, i, polarity) ==
  LET given == IF st.messages[i].feedbackGiven = polarity THEN "null" ELSE polarity
      s1    == [st EXCEPT !.messages[i].feedbackGiven = given]
  IN  onMessageFeedback(s1, [MessageDetail(s1, i) EXCEPT !.feedback = polarity])

\* #onThumbsUpClick and #onThumbsDownClick, which differ in the polarity only
onFeedbackClick(st, i, polarity) ==
  LET given == IF st.messages[i].feedbackGiven = polarity THEN "null" ELSE polarity
      s1    == [st EXCEPT !.messages[i].feedbackGiven = given]
  IN  IF given # "null"
      THEN onMessageFeedback(s1, [MessageDetail(s1, i) EXCEPT !.feedback = polarity])
      ELSE s1

onThumbsUpClick(st, i) == onFeedbackClick(st, i, "positive")

onThumbsDownClick(st, i) == onFeedbackClick(st, i, "negative")

onRegenerateClick(st, i) == onMessageRegenerate(st, MessageDetail(st, i))

onShareClick(st, i) == onMessageShare(st, MessageDetail(st, i))

onMoreClick(st, i) == [st EXCEPT !.messages[i].showMoreMenu = ~@]

\* the click listener that #onMoreClick adds to the document: a click outside
\* the message closes its menu
closeMenu(st, i) == [st EXCEPT !.messages[i].showMoreMenu = FALSE]

MenuActions == {"copy-markdown", "copy-text", "none"}

\* variant: a copy item of the menu dispatches the copy event
onMenuClick_Dispatch(st, i, action) ==
  IF action \in {"copy-markdown", "copy-text"}
  THEN onMessageCopy([st EXCEPT !.messages[i].showMoreMenu = FALSE],
                     MessageDetail(st, i))
  ELSE st

\* a click inside the menu; the clipboard write of a menu item has no
\* continuation
onMenuClick(st, i, action) ==
  IF action \in {"copy-markdown", "copy-text"}
  THEN [st EXCEPT !.messages[i].showMoreMenu = FALSE]
  ELSE st

\* ---------------------------------------------------------------- actions
ContentCap == IF run.on THEN MaxStream ELSE MaxContent

WithinBounds(st) ==
  /\ Len(st.messages) <= MaxMsgs
  /\ Len(st.sent) <= MaxSent
  /\ \A i \in 1..Len(st.messages) : Len(st.messages[i].content) <= ContentCap
  /\ Len(st.finalTranscript) <= MaxHeard
  /\ st.starts <= MaxStarts
  /\ Len(st.recognizers) <= MaxRecognizers
  /\ Len(st.clipboard) <= MaxCopies
  /\ st.container.boundOnExternalLinkClick <= MaxAttach

NoRun  == [on |-> TRUE, open |-> FALSE, base |-> 0, contents |-> << >>, ended |-> FALSE]
RunOff == [NoRun EXCEPT !.on = FALSE]

\* the history of the streamed message in progress: opened by message_start
\* (base: the messages that were there before it, a tail with empty content
\* not counted), extended by each following operation=append chunk, dropped by
\* anything else
NextRun(message, st) ==
  IF ~run.on THEN run
  ELSE IF message.chunk_type = "message_start"
  THEN [NoRun EXCEPT !.open = TRUE,
                     !.base = IF messages # << >> /\ messages[Len(messages)].content = EmptyText
                              THEN Len(messages) - 1 ELSE Len(messages),
                     !.contents = <<message.content>>]
  ELSE IF /\ run.open /\ ~run.ended /\ ~st.thrown
          /\ message.operation = "append" /\ Len(run.contents) <= MaxRun
       THEN [run EXCEPT !.contents = Append(@, message.content),
                        !.ended = (message.chunk_type = "message_end")]
       ELSE NoRun

NoArg == [chunk |-> "none", text |-> EmptyText, submit |-> FALSE, key |-> "none"]
ChunkArg(message) == [NoArg EXCEPT !.chunk = message.chunk_type]
\* a producer asked for text to be submitted
SubmitArg(text) == [NoArg EXCEPT !.text = text, !.submit = TRUE]

Commit(st, op, arg, nextRun) ==
  /\ WithinBounds(st)
  /\ container' = st.container
  /\ messages' = st.messages
  /\ textarea' = st.textarea
  /\ disabled' = st.disabled
  /\ buttonDisabled' = st.buttonDisabled
  /\ sent' = st.sent
  /\ isRecording' = st.isRecording
  /\ speechRecognition' = st.speechRecognition
  /\ recognizers' = st.recognizers
  /\ finalTranscript' = st.finalTranscript
  /\ transcribedText' = st.transcribedText
  /\ starts' = st.starts
  /\ pendingMedia' = st.pendingMedia
  /\ streams' = st.streams
  /\ recorders' = st.recorders
  /\ mediaRecorder' = st.mediaRecorder
  /\ recorderTasks' = st.recorderTasks
  /\ audioChunks' = st.audioChunks
  /\ timers' = st.timers
  /\ recordingTimer' = st.recordingTimer
  /\ readers' = st.readers
  /\ audioSent' = st.audioSent
  /\ clipboard' = st.clipboard
  /\ actionsSent' = st.actionsSent
  /\ last' = [op |-> op, chunk |-> arg.chunk, text |-> arg.text, submit |-> arg.submit,
              key |-> arg.key,
              err |-> st.thrown, attempt |-> st.attempt]
  /\ run' = nextRun
  /\ isComposing' = st.isComposing
  /\ UNCHANGED <<audioInputMode, speechSupported>>

\* a handler of the widget ran: the element is attached, nothing changes in
\* the message handler
DoneWith(st, op, arg, act) ==
  /\ connected
  /\ Commit(st, op, arg, IF run.on THEN NoRun ELSE run)
  /\ activation' = act
  /\ UNCHANGED <<connected, received, rendering, dispatched>>

Done(st, op, arg) == DoneWith(st, op, arg, activation)

\* no suggestion activation is recorded (on: activations are recorded)
NoActivation ==
  [on |-> FALSE, suggestion |-> EmptyText, submit |-> FALSE, metaKey |-> FALSE,
   ctrlKey |-> FALSE, altKey |-> FALSE, focused |-> FALSE]

\* the container after its first render, attached: the listeners of
\* #addEventListeners are registered, with the first bound click handler
Rendered(messageActions) ==
  [messageActions |-> messageActions, attached |-> TRUE, updated |-> TRUE,
   attachEventListenersOnReconnect |-> TRUE, listening |-> TRUE,
   boundOnExternalLinkClick |-> 1, windowClick |-> {1}]

InitWith(r) ==
  /\ connected = TRUE
  /\ starts = 0
  /\ pendingMedia = 0
  /\ streams = << >>
  /\ recorders = << >>
  /\ mediaRecorder = 0
  /\ recorderTasks = << >>
  /\ audioChunks = << >>
  /\ timers = << >>
  /\ recordingTimer = 0
  /\ readers = << >>
  /\ audioSent = << >>
  /\ clipboard = << >>
  /\ actionsSent = << >>
  /\ received = 0
  /\ rendering = {}
  /\ dispatched = << >>
  /\ messages = << >>
  /\ textarea = EmptyText
  /\ disabled = FALSE
  /\ buttonDisabled = TRUE
  /\ isComposing = FALSE
  /\ sent = << >>
  /\ isRecording = FALSE
  /\ speechRecognition = FALSE
  /\ recognizers = << >>
  /\ finalTranscript = EmptyText
  /\ transcribedText = EmptyText
  /\ last = [op |-> "init", chunk |-> "none", text |-> EmptyText, submit |-> FALSE,
             key |-> "none",
             err |-> FALSE, attempt |-> "none"]
  /\ run = r

Init ==
  /\ container = Rendered("")
  /\ InitWith(RunOff)
  /\ activation = NoActivation
  /\ audioInputMode = "transcribe"
  /\ speechSupported = TRUE

\* the user edits the textarea (@input)
Type(v) == v # textarea /\ Done(onInput([Cur EXCEPT !.textarea = v]), "type", NoArg)

\* click on the send button; a disabled button delivers no click
ClickSend == ~buttonDisabled /\ Done(sendInput(Cur, TRUE), "click", SubmitArg(textarea))

\* the key of a keydown event, as far as #onKeyDown tells keys apart
Key(isEnterCode, shiftKey) ==
  IF ~isEnterCode THEN "other" ELSE IF shiftKey THEN "Shift+Enter" ELSE "Enter"

KeyDown(isEnterCode, shiftKey) ==
  Done(onKeyDown(Cur, isEnterCode, shiftKey), "keydown",
       [(IF isEnterCode /\ ~shiftKey /\ ~isComposing THEN SubmitArg(textarea) ELSE NoArg)
          EXCEPT !.key = Key(isEnterCode, shiftKey)])

\* compositionstart and compositionend of the textarea bubble to the element
CompositionStart ==
  ~isComposing /\ Done([Cur EXCEPT !.isComposing = TRUE], "compositionstart", NoArg)

CompositionEnd ==
  isComposing /\ Done([Cur EXCEPT !.isComposing = FALSE], "compositionend", NoArg)

OnAppend(message) == Done(appendMessage(Cur, message, TRUE), "append", NoArg)

AppendChunk(message) ==
  LET st == appendMessageChunk(Cur, message)
  IN  /\ Commit(st, "chunk", ChunkArg(message), NextRun(message, st))
      /\ UNCHANGED <<connected, received, rendering, dispatched, activation>>

Clear == Done(onClear(Cur), "clear", NoArg)

UpdateUserInput(hasValue, value, submit) ==
  \E focus \in BOOLEAN :
    Done(onUpdateUserInput(Cur, hasValue, value, submit, focus), "update-user-input",
         IF hasValue /\ submit THEN SubmitArg(value) ELSE NoArg)

RemoveLoading == Done(onRemoveLoadingMessage(Cur), "remove-loading", NoArg)

\* a click, Enter or Space on a suggestion element, with the modifier keys
\* of the event
Suggestion(suggestion, submit, metaKey, ctrlKey, altKey) ==
  LET st == onInputSuggestionEvent(Cur, suggestion, submit, metaKey, ctrlKey, altKey)
  IN  DoneWith(st, "suggestion",
               IF shouldSubmit(submit, metaKey, ctrlKey, altKey)
               THEN SubmitArg(suggestion) ELSE NoArg,
               IF activation.on
               THEN [on |-> TRUE, suggestion |-> suggestion, submit |-> submit,
                     metaKey |-> metaKey, ctrlKey |-> ctrlKey, altKey |-> altKey,
                     focused |-> st.focus]
               ELSE activation)

\* click on the microphone button, which is rendered disabled with the input;
\* stopping a dictation asks for the displayed text to be submitted
ToggleRecording ==
  /\ ~disabled
  /\ Done(toggleRecording(Cur), "toggle-recording",
          IF isRecording /\ speechRecognition
          THEN SubmitArg(Trim(transcribedText)) ELSE NoArg)

Results == [isFinal : BOOLEAN, transcript : {M, Blank}]

RecognitionResult(results) ==
  speechRecognition /\ Done(onresult(Cur, results), "onresult", NoArg)

RecognitionError ==
  speechRecognition /\ Done(onerror(Cur), "onerror", NoArg)

\* a callback of the platform ran; it needs no attached element
Callback(st, op) ==
  /\ Commit(st, op, NoArg, IF run.on THEN NoRun ELSE run)
  /\ UNCHANGED <<connected, received, rendering, dispatched, activation>>

\* the promise of getUserMedia resolves; new MediaRecorder returns or throws
MediaGranted(created) ==
  /\ pendingMedia > 0
  /\ Callback(startRecordingResume(Cur, created), "media-granted")

\* the promise of getUserMedia rejects
MediaDenied ==
  /\ pendingMedia > 0
  /\ Callback(startRecordingFailed(Cur), "media-denied")

\* the task of the recorder that became inactive first runs: it fires
\* dataavailable and then stop, and no other callback runs between the two
RecorderEvents(st, hasData) ==
  LET r  == Head(st.recorderTasks)
      s1 == [st EXCEPT !.recorderTasks = Tail(@)]
  IN  onstop(ondataavailable(s1, r, hasData), r)

StopFired(hasData) ==
  /\ recorderTasks # << >>
  /\ Callback(RecorderEvents(Cur, hasData), "onstop")

ReaderLoaded(i) ==
  /\ i \in 1..Len(readers)
  /\ Callback(onloadend(Cur, i), "onloadend")

\* a recognizer fires end: after stop(), or by itself while it listens (the
\* platform stops listening after a silence)
RecognitionEnd(k) ==
  /\ k \in 1..Len(recognizers)
  /\ \/ recognizers[k].phase = "stopping"
     \/ recognizers[k].phase = "listening" /\ recognizers[k].ended < MaxEnds
  /\ Callback(RecognizerEnded(Cur, k), "onend")

\* a recognizer that stop() was called on delivers a result or an error
\* before its end event: the handlers that #startTranscription set are still
\* on it
Stopping(k) == k \in 1..Len(recognizers) /\ recognizers[k].phase = "stopping"

LateResult(k, results) ==
  Stopping(k) /\ Callback(onresult(Cur, results), "late-result")

LateError(k) ==
  Stopping(k) /\ Callback(onerror(Cur), "late-error")

\* the element is removed from the document: disconnectedCallback
Detach ==
  /\ connected
  /\ connected' = FALSE
  /\ Commit(stopRecording(Cur, TRUE), "detach", NoArg, IF run.on THEN NoRun ELSE run)
  /\ UNCHANGED <<received, rendering, dispatched, activation>>

\* what the shinyChatMessage handler dispatches for the event message.handler
Deliver(st, inbound) ==
  IF inbound.handler = "shiny-chat-append-message"
  THEN appendMessage(st, inbound.obj, TRUE)
  ELSE appendMessageChunk(st, inbound.obj)

DeliverOp(inbound) ==
  IF inbound.handler = "shiny-chat-append-message" THEN "append" ELSE "chunk"

DeliverArg(inbound) ==
  IF inbound.handler = "shiny-chat-append-message" THEN NoArg ELSE ChunkArg(inbound.obj)

\* the handler is called with the next message: without html_deps it
\* dispatches the event before it returns, with html_deps it is suspended in
\* await renderDependencies
HandleMessage(inbound, hasDeps) ==
  /\ connected
  /\ received < MaxInbound
  /\ received' = received + 1
  /\ IF hasDeps
     THEN /\ rendering' = rendering \cup {[seq |-> received + 1, message |-> inbound]}
          /\ Commit(Cur, "await-deps", NoArg, run)
          /\ UNCHANGED dispatched
     ELSE /\ Commit(Deliver(Cur, inbound), DeliverOp(inbound), DeliverArg(inbound), run)
          /\ dispatched' = Append(dispatched, received + 1)
          /\ UNCHANGED rendering
  /\ UNCHANGED <<connected, activation>>

\* renderDependencies has settled for one suspended call, which goes on
DepsRendered(p) ==
  /\ p \in rendering
  /\ rendering' = rendering \ {p}
  /\ dispatched' = Append(dispatched, p.seq)
  /\ Commit(Deliver(Cur, p.message), DeliverOp(p.message), DeliverArg(p.message), run)
  /\ UNCHANGED <<connected, received, activation>>

\* the container is inserted into the document
ContainerAttach ==
  /\ ~container.attached
  /\ Callback(connectedCallback(Cur), "container-attach")

\* the first update of the container, which its first attach has scheduled,
\* is performed; the container may have been removed in between
ContainerFirstUpdated ==
  /\ ~container.updated
  /\ container.boundOnExternalLinkClick > 0
  /\ Callback(firstUpdated(Cur), "container-first-updated")

\* the container is removed from the document
ContainerDetach ==
  /\ container.attached
  /\ Callback(disconnectedCallback(Cur), "container-detach")

\* an event dispatched on the container is handled if the listener is there
Heard == container.listening

\* clicks on the action buttons of message i
ActsOn(i) == i \in 1..Len(messages) /\ hasActions(Cur, i)

\* the message whose buttons are used: the first one that has them (0: none)
Target ==
  IF \E i \in 1..Len(messages) : hasActions(Cur, i)
  THEN CHOOSE i \in 1..Len(messages) :
         hasActions(Cur, i) /\ \A j \in 1..(i - 1) : ~hasActions(Cur, j)
  ELSE 0

CopyClick(i) == ActsOn(i) /\ Done(onCopyClick(Cur, i), "copy", NoArg)

CopySettled(k, fulfilled) ==
  /\ k \in 1..Len(clipboard)
  /\ Callback(IF fulfilled THEN onCopied(Cur, k) ELSE onCopyFailed(Cur, k),
              IF fulfilled THEN "copied" ELSE "copy-failed")

ThumbsUp(i) == ActsOn(i) /\ Done(onThumbsUpClick(Cur, i), "thumbs-up", NoArg)

ThumbsDown(i) == ActsOn(i) /\ Done(onThumbsDownClick(Cur, i), "thumbs-down", NoArg)

Regenerate(i) == ActsOn(i) /\ Done(onRegenerateClick(Cur, i), "regenerate", NoArg)

Share(i) == ActsOn(i) /\ Done(onShareClick(Cur, i), "share", NoArg)

MoreClick(i) == ActsOn(i) /\ Done(onMoreClick(Cur, i), "more", NoArg)

OutsideClick(i) ==
  /\ ActsOn(i)
  /\ messages[i].showMoreMenu
  /\ Done(closeMenu(Cur, i), "close-menu", NoArg)

MenuClick(i, action) ==
  /\ ActsOn(i)
  /\ messages[i].showMoreMenu
  /\ Done(onMenuClick(Cur, i, action), "menu-click", NoArg)

Messages == [role : Roles, content : MsgTexts]

Chunks(texts) ==
  [role : {"assistant"}, content : texts, chunk_type : ChunkTypes,
   operation : Operations]

\* the transcript engine: every inbound signal, and submission by the send
\* button (shiny-chat-input-sent is dispatched by #sendInput only)
Next ==
  \/ \E v \in InputTexts : Type(v)
  \/ ClickSend
  \/ \E m \in Messages : OnAppend(m)
  \/ \E m \in Chunks(ChunkTexts) : AppendChunk(m)
  \/ Clear
  \/ RemoveLoading

Spec == Init /\ [][Next]_vars

\* streamed messages with their history recorded
InitStream ==
  /\ container = Rendered("")
  /\ InitWith(NoRun)
  /\ activation = NoActivation
  /\ audioInputMode = "transcribe"
  /\ speechSupported = TRUE

NextStream ==
  \/ \E m \in Chunks(StreamTexts) : AppendChunk(m)
  \/ \E m \in Messages : OnAppend(m)
  \/ Clear
  \/ RemoveLoading

SpecStream == InitStream /\ [][NextStream]_vars

StartChunk ==
  [role |-> "assistant", content |-> EmptyText, chunk_type |-> "message_start",
   operation |-> "append"]

\* every producer of a submission, with the inbound signals that begin a
\* response and end a turn (the modifier keys of a suggestion activation are
\* drawn in full in SpecSuggest, the keys other than Enter in SpecKeys)
NextSubmit ==
  \/ \E v \in InputTexts : Type(v)
  \/ ClickSend
  \/ \E s \in BOOLEAN : KeyDown(TRUE, s)
  \/ \E v \in InputTexts, s \in BOOLEAN : UpdateUserInput(TRUE, v, s)
  \/ \E v \in InputTexts, b \in BOOLEAN, m \in BOOLEAN : Suggestion(v, b, m, FALSE, FALSE)
  \/ (ToggleRecording /\ Len(recognizers') <= MaxDictations)
  \/ \E r \in Results : RecognitionResult(<<r>>)
  \/ RecognitionError
  \/ UpdateUserInput(FALSE, EmptyText, FALSE)
  \/ AppendChunk(StartChunk)
  \/ Clear
  \/ RemoveLoading

SpecSubmit == Init /\ [][NextSubmit]_vars

\* the keyboard: typing, IME composition and keys pressed in the textarea,
\* with the signals that begin a response and end a turn
NextKeys ==
  \/ \E v \in InputTexts : Type(v)
  \/ \E e \in BOOLEAN, s \in BOOLEAN : KeyDown(e, s)
  \/ CompositionStart
  \/ CompositionEnd
  \/ AppendChunk(StartChunk)
  \/ RemoveLoading

SpecKeys == Init /\ [][NextKeys]_vars

\* suggestion activations with every combination of the element's own flag
\* and the modifier keys, recorded, between typing and the end of a turn
InitSuggest ==
  /\ container = Rendered("")
  /\ InitWith(RunOff)
  /\ activation = [NoActivation EXCEPT !.on = TRUE]
  /\ audioInputMode = "transcribe"
  /\ speechSupported = TRUE

NextSuggest ==
  \/ \E v \in InputTexts, b \in BOOLEAN, m \in BOOLEAN, c \in BOOLEAN, a \in BOOLEAN :
       Suggestion(v, b, m, c, a)
  \/ \E v \in InputTexts : Type(v)
  \/ RemoveLoading

SpecSuggest == InitSuggest /\ [][NextSuggest]_vars

\* the action buttons of one message of a transcript that grows by whole
\* messages and by submitted turns
NextActions ==
  \/ \E m \in Messages : OnAppend(m)
  \/ Type(M)
  \/ ClickSend
  \/ RemoveLoading
  \/ CopyClick(Target)
  \/ \E k \in 1..MaxCopies, f \in BOOLEAN : CopySettled(k, f)
  \/ ThumbsUp(Target)
  \/ ThumbsDown(Target)
  \/ Regenerate(Target)
  \/ Share(Target)
  \/ MoreClick(Target)
  \/ OutsideClick(Target)
  \/ \E a \in MenuActions : MenuClick(Target, a)

\* the container enables every action for its messages
InitActions ==
  /\ container = Rendered("all")
  /\ InitWith(RunOff)
  /\ activation = NoActivation
  /\ audioInputMode = "transcribe"
  /\ speechSupported = TRUE

SpecActions == InitActions /\ [][NextActions]_vars

\* the container from its construction on: attached, rendered and removed any
\* number of times, with the inbound events it hears
Constructed ==
  [messageActions |-> "", attached |-> FALSE, updated |-> FALSE,
   attachEventListenersOnReconnect |-> FALSE, listening |-> FALSE,
   boundOnExternalLinkClick |-> 0, windowClick |-> {}]

InitLifecycle ==
  /\ container = Constructed
  /\ InitWith(RunOff)
  /\ activation = NoActivation
  /\ audioInputMode = "transcribe"
  /\ speechSupported = TRUE

NextLifecycle ==
  \/ ContainerAttach
  \/ ContainerFirstUpdated
  \/ ContainerDetach
  \/ \E m \in Messages : Heard /\ OnAppend(m)
  \/ Heard /\ AppendChunk(StartChunk)
  \/ Heard /\ RemoveLoading

SpecLifecycle == InitLifecycle /\ [][NextLifecycle]_vars

\* messages that carry their own content-type and message-actions values
ConfiguredMessages ==
  [role : Roles, content : {M}, content_type : {"markdown", "semi-markdown"},
   message_actions : ActionSpecs \ {""}]

\* a container with any message-actions value, appended messages with and
\* without the optional keys, and submitted turns
InitConfig ==
  /\ container \in {Rendered(a) : a \in ActionSpecs}
  /\ InitWith(RunOff)
  /\ activation = NoActivation
  /\ audioInputMode = "transcribe"
  /\ speechSupported = TRUE

NextConfig ==
  \/ \E m \in ConfiguredMessages : OnAppend(m)
  \/ \E m \in Messages : OnAppend(m)
  \/ Type(M)
  \/ ClickSend
  \/ RemoveLoading

SpecConfig == InitConfig /\ [][NextConfig]_vars

\* the capture sessions of both modes, with the platform's callbacks and the
\* removal of the element
InitCapture ==
  /\ container = Rendered("")
  /\ InitWith(RunOff)
  /\ activation = NoActivation
  /\ audioInputMode \in {"transcribe", "raw"}
  /\ speechSupported \in BOOLEAN

NextCapture ==
  \/ ToggleRecording
  \/ \E created \in BOOLEAN : MediaGranted(created)
  \/ MediaDenied
  \/ \E d \in BOOLEAN : StopFired(d)
  \/ \E i \in 1..MaxStarts : ReaderLoaded(i)
  \/ \E r \in Results : RecognitionResult(<<r>>)
  \/ RecognitionError
  \/ \E k \in 1..MaxRecognizers : RecognitionEnd(k)
  \/ RemoveLoading
  \/ Detach

SpecCapture == InitCapture /\ [][NextCapture]_vars

\* dictation sessions one after the other, with the callbacks of the
\* recognizers that were stopped
Spoken(isFinal) == [isFinal |-> isFinal, transcript |-> M]

NextDictation ==
  \/ ToggleRecording
  \/ RecognitionResult(<<Spoken(TRUE)>>)
  \/ \E k \in 1..MaxRecognizers : (RecognitionEnd(k) /\ recognizers[k].phase = "stopping")
  \/ \E k \in 1..MaxRecognizers, f \in BOOLEAN : LateResult(k, <<Spoken(f)>>)
  \/ \E k \in 1..MaxRecognizers : LateError(k)
  \/ RemoveLoading

SpecDictation == Init /\ [][NextDictation]_vars

\* the messages the server sends, as the shinyChatMessage handler gets them
Inbound ==
  {[handler |-> "shiny-chat-append-message",
    obj |-> [role |-> "assistant", content |-> M, chunk_type |-> "null",
             operation |-> "null"]]}
  \cup {[handler |-> "shiny-chat-append-message-chunk",
         obj |-> [role |-> "assistant", content |-> A, chunk_type |-> c,
                  operation |-> "append"]] : c \in ChunkTypes}

NextDispatch ==
  \/ \E i \in Inbound, d \in BOOLEAN : HandleMessage(i, d)
  \/ \E p \in rendering : DepsRendered(p)

SpecDispatch == Init /\ [][NextDispatch]_vars

\* ------------------------------------------------------------ vocabulary
HasTail == messages # << >>
TailMsg == messages[Len(messages)]

\* a loading placeholder: an assistant message with empty content
IsPlaceholder(m) == m.role = "assistant" /\ m.content = EmptyText

TurnPending == HasTail /\ (IsPlaceholder(TailMsg) \/ TailMsg.streaming)

AllButLast(s) == SubSeq(s, 1, Len(s) - 1)

RECURSIVE Flatten(_)
Flatten(texts) ==
  IF texts = << >> THEN EmptyText ELSE Head(texts) \o Flatten(Tail(texts))

\* ------------------------------------------------------------------ C1
\* C1: in every reachable state every loading placeholder of the transcript is
\* its last message, so there is at most one.
C1_PlaceholderOnlyAtTail ==
  \A i \in 1..Len(messages) : IsPlaceholder(messages[i]) => i = Len(messages)

\* a submission has put a placeholder behind the user's message
C1_Witness ==
  /\ last.op = "click"
  /\ Len(messages) = 2
  /\ messages[1].role = "user"
  /\ IsPlaceholder(messages[2])

\* ------------------------------------------------------------------ C2
\* C2: when a message_start chunk, then chunks with operation=append, then a
\* message_end chunk with operation=append have been handled with nothing in
\* between, the transcript holds exactly one message more than what was kept
\* from before, and that tail's content is the concatenation of the chunks'
\* contents in arrival order (the start chunk's own content first), it is not
\* streaming and the input is enabled; "", "Hel", "lo", "" give "Hello".
C2_StreamConcatenates ==
  run.ended =>
    /\ Len(messages) = run.base + 1
    /\ TailMsg.content = Flatten(run.contents)
    /\ ~TailMsg.streaming
    /\ ~disabled
    /\ (run.contents = <<EmptyText, Hel, Lo, EmptyText>> => TailMsg.content = Hello)

C2_Witness ==
  /\ run.ended
  /\ run.contents = <<EmptyText, Hel, Lo, EmptyText>>
  /\ last.op = "chunk" /\ last.chunk = "message_end"
  /\ TailMsg.content = Hello


\* ------------------------------------------------------------- C3, C4
\* the producers of a submission: what is submitted is the textarea's value
\* (send button, Enter), the given value (update-user-input, suggestion) or
\* the trimmed displayed text (stopping a dictation)
Placeholder == NewElement([role |-> "assistant", content |-> EmptyText])

\* the turn of text t was appended: its user message, then the placeholder
TurnAppended(t) ==
  LET n == Len(messages')
  IN  /\ n >= 2
      /\ messages'[n - 1] = NewElement([role |-> "user", content |-> t])
      /\ messages'[n] = Placeholder
      /\ SubSeq(messages', 1, n - 2) \in
            {messages, SubSeq(messages, 1, Len(messages) - 1)}
      /\ disabled'
      /\ sent' = Append(sent, t)

Accepted(t) == ~disabled /\ Trim(t) # EmptyText
NothingSubmitted == messages' = messages /\ disabled' = disabled /\ sent' = sent

\* C3: a submission of non-blank text while the input is enabled, by any
\* producer, appends one user message with that text and then one loading
\* placeholder as the tail, disables the input and sends the text once.
C3_SubmitAppendsTurn ==
  [][ (last'.submit /\ Accepted(last'.text)) => TurnAppended(last'.text) ]_vars

\* Enter has submitted the typed text: user message, placeholder, disabled
C3_Witness ==
  /\ last.op = "keydown" /\ last.submit /\ last.text = M /\ last.attempt = "sent"
  /\ messages = <<NewElement([role |-> "user", content |-> M]), Placeholder>>
  /\ disabled
  /\ sent = <<M>>

\* C4: a submit attempt while the input is disabled, or with empty or
\* white-space-only text, changes neither the transcript nor the input-enabled
\* state nor the submitted values, whichever producer made it.
C4_RejectedSubmitIsNoOp ==
  [][ (last'.submit /\ ~Accepted(last'.text)) => NothingSubmitted ]_vars

\* a producer asked for non-blank text to be submitted while the input was
\* disabled, and #sendInput returned early
C4_Witness ==
  /\ last.submit /\ last.text = M /\ last.attempt = "rejected"
  /\ last.op \in {"keydown", "update-user-input", "suggestion"}
  /\ disabled
  /\ HasTail

\* ------------------------------------------------------------------ C5
\* C5 as stated: in every reachable state the input is disabled if and only if
\* a turn is pending, that is, the tail of the transcript is a loading
\* placeholder or a message that is still streaming.
C5_Original == disabled <=> TurnPending

\* C5 as amended: the input becomes disabled only when a turn becomes pending:
\* every step that takes the input from enabled to disabled leaves a loading
\* placeholder or a streaming message as the tail of the transcript.
C5_DisabledOnlyByPendingTurn ==
  [][ (~disabled /\ disabled') =>
        /\ messages' # << >>
        /\ \/ IsPlaceholder(messages'[Len(messages')])
           \/ messages'[Len(messages')].streaming ]_vars

\* a message_start chunk has disabled the input and left a streaming tail
C5_Witness ==
  /\ last.op = "chunk" /\ last.chunk = "message_start"
  /\ disabled
  /\ HasTail /\ TailMsg.streaming

\* ------------------------------------------------------------------ C6
\* C6: after an atomic append-message the new message is the tail and the input
\* is enabled; the previous tail was removed if and only if its content was
\* empty, the rest of the transcript being kept as it was.
C6_AtomicAppend ==
  [][ last'.op = "append" =>
        \A m \in Messages : OnAppend(m) =>
          /\ messages' # << >>
          /\ messages'[Len(messages')] =
               NewElement([role |-> m.role, content |-> m.content])
          /\ ~disabled'
          /\ AllButLast(messages') =
               IF HasTail /\ TailMsg.content = EmptyText
               THEN AllButLast(messages) ELSE messages ]_vars

\* the answer to a submitted turn arrived in one piece: it took the place of
\* the loading placeholder and the user's message before it was kept
C6_Witness ==
  /\ last.op = "append"
  /\ sent = <<M>>
  /\ messages = <<NewElement([role |-> "user", content |-> M]),
                  NewElement([role |-> "assistant", content |-> M])>>
  /\ ~disabled

\* ------------------------------------------------------------------ C7
\* C7: from the handling of a message_start chunk until its message_end chunk
\* is handled, that is, while the tail message is streaming, the input is
\* disabled, whatever other inbound signals arrive in between.
C7_DisabledWhileStreaming == (HasTail /\ TailMsg.streaming) => disabled

\* ------------------------------------------------------------------ C8
\* C8 as stated: in every reachable state, handling a message_end chunk clears
\* the streaming flag of the tail message and leaves the input enabled.
C8_Original ==
  (last.op = "chunk" /\ last.chunk = "message_end") =>
    /\ ~disabled
    /\ HasTail => ~TailMsg.streaming

\* C8 as amended: handling a message_end chunk while the transcript is not
\* empty clears the streaming flag of the tail message and leaves the input
\* enabled.
C8_EndChunkFinalizes ==
  [][ (last'.op = "chunk" /\ last'.chunk = "message_end" /\ messages # << >>) =>
        /\ ~disabled'
        /\ messages' # << >>
        /\ ~messages'[Len(messages')].streaming
        /\ ~last'.err ]_vars

\* a message_end chunk was applied to the tail: not streaming, input enabled
C8_Witness ==
  /\ last.op = "chunk" /\ last.chunk = "message_end" /\ ~last.err
  /\ HasTail /\ TailMsg.role = "assistant" /\ TailMsg.content = A
  /\ ~TailMsg.streaming
  /\ ~disabled

\* ------------------------------------------------------------------ C9
\* C9: a chunk that is not a message_start, received while the transcript is
\* empty, throws and leaves the transcript and the input-enabled state as they
\* were.
C9_ChunkOnEmptyTranscriptThrows ==
  [][ (last'.op = "chunk" /\ last'.chunk # "message_start" /\ messages = << >>) =>
        /\ last'.err
        /\ messages' = messages
        /\ disabled' = disabled ]_vars

\* a chunk was refused on an empty transcript while the input was disabled
C9_Witness ==
  /\ last.op = "chunk" /\ last.chunk \in {"null", "message_end"}
  /\ last.err
  /\ messages = << >>
  /\ disabled

\* ----------------------------------------------------------------- C10
\* C10: a chunk that is not a message_start and arrives while no message is
\* streaming is signalled as an error and modifies no message, also when the
\* transcript is not empty.
C10_ContinuationWithoutStartRefused ==
  [][ ( /\ last'.op = "chunk" /\ last'.chunk # "message_start"
        /\ \A i \in 1..Len(messages) : ~messages[i].streaming ) =>
        /\ last'.err
        /\ messages' = messages ]_vars

\* ----------------------------------------------------------------- C11
\* C11: handling a message_start chunk appends exactly one new tail message
\* marked streaming without finalizing, and the new tail's content is empty
\* whatever content the start chunk carried.
C11_StartChunkContentNotApplied ==
  [][ (last'.op = "chunk" /\ last'.chunk = "message_start") =>
        /\ messages' # << >>
        /\ AllButLast(messages') =
             IF HasTail /\ TailMsg.content = EmptyText
             THEN AllButLast(messages) ELSE messages
        /\ messages'[Len(messages')].streaming
        /\ disabled'
        /\ messages'[Len(messages')].content = EmptyText ]_vars

\* ----------------------------------------------------------------- C12
\* C12: handling remove-loading-message removes the tail message if and only
\* if its content is empty, removes nothing else, and leaves the input enabled.
C12_RemoveLoading ==
  [][ last'.op = "remove-loading" =>
        /\ messages' = IF HasTail /\ TailMsg.content = EmptyText
                       THEN AllButLast(messages) ELSE messages
        /\ ~disabled' ]_vars

\* the backend declined to answer a submitted turn: the placeholder is gone,
\* the user's message is kept and the input is enabled again
C12_Witness ==
  /\ last.op = "remove-loading"
  /\ sent = <<M>>
  /\ messages = <<NewElement([role |-> "user", content |-> M])>>
  /\ ~disabled

\* ----------------------------------------------------------------- C13
\* C13: handling clear-messages empties the transcript and leaves the
\* input-enabled state, the textarea value and the capture session unchanged.
C13_ClearFrame ==
  [][ last'.op = "clear" =>
        /\ messages' = << >>
        /\ disabled' = disabled
        /\ textarea' = textarea
        /\ isRecording' = isRecording
        /\ speechRecognition' = speechRecognition
        /\ finalTranscript' = finalTranscript
        /\ transcribedText' = transcribedText
        /\ mediaRecorder' = mediaRecorder
        /\ recorders' = recorders
        /\ recordingTimer' = recordingTimer ]_vars

\* the transcript was cleared during a dictation, with text typed and the
\* input disabled by a response in progress
C13_Witness ==
  /\ last.op = "clear"
  /\ messages = << >>
  /\ disabled
  /\ textarea = M
  /\ isRecording /\ speechRecognition

\* ----------------------------------------------------------------- C14
\* the user types x and presses the send button (a disabled button delivers
\* no click)
TypeAndSubmit(st, x) ==
  LET typed == onInput([st EXCEPT !.textarea = x])
  IN  IF typed.buttonDisabled THEN typed ELSE sendInput(typed, TRUE)

\* C14: in any state, update-user-input with {value: x, submit: true} gives
\* the transcript, the input-enabled state and the submitted values that the
\* user typing x and pressing submit gives in that state; with the input
\* enabled and x not blank that is one user turn and one placeholder.
C14_UpdateUserInputIsTypeAndSubmit ==
  [][ (last'.op = "update-user-input" /\ last'.submit) =>
        LET typed == TypeAndSubmit(Cur, last'.text)
        IN  /\ messages' = typed.messages
            /\ disabled' = typed.disabled
            /\ sent' = typed.sent
            /\ Accepted(last'.text) => TurnAppended(last'.text) ]_vars

\* update-user-input submitted "m" over a typed draft
C14_Witness ==
  /\ last.op = "update-user-input" /\ last.submit /\ last.text = M
  /\ last.attempt = "sent"
  /\ messages = <<NewElement([role |-> "user", content |-> M]), Placeholder>>
  /\ sent = <<M>>
  /\ disabled
  /\ textarea = Blank

\* ----------------------------------------------------------------- C15
\* C15: except on clear-messages, every message but the tail is left where and
\* as it was by any event: only the tail can be removed or changed.
C15_OnlyTailChanges ==
  [][ last'.op # "clear" =>
        \A i \in 1..(Len(messages) - 1) :
          i <= Len(messages') /\ messages'[i] = messages[i] ]_vars

\* a chunk changed the tail behind the user's message
C15_Witness ==
  /\ last.op = "chunk" /\ last.chunk = "null"
  /\ Len(messages) = 2
  /\ messages[1] = NewElement([role |-> "user", content |-> M])
  /\ messages[2].role = "assistant" /\ messages[2].content = A

Recording(r) == recorders[r].phase = "recording"

RunningTimers == {i \in 1..Len(timers) : timers[i]}

\* the streams held by a recorder that is recording
HeldStreams == {recorders[r].stream : r \in {q \in 1..Len(recorders) : Recording(q)}}

\* C17: at no time are two capture sessions active in one widget: there are
\* never two recorders recording, two streams held by them or two tick timers
\* running, also when the microphone button is used again while a start is
\* waiting for the microphone.
C17_OneCaptureSession ==
  /\ Cardinality({r \in 1..Len(recorders) : Recording(r)}) <= 1
  /\ Cardinality(HeldStreams) <= 1
  /\ Cardinality(RunningTimers) <= 1

\* C18: once the element is detached, no text is submitted and no audio input
\* is sent, whatever capture session was in progress or finishing then.
C18_NothingSentAfterTeardown ==
  [][ ~connected => (sent' = sent /\ audioSent' = audioSent) ]_vars

\* C19: when the element was detached while a raw-mode start was waiting for
\* the microphone, the later grant starts no capture: afterwards the capturing
\* flag is false, no tick timer runs and the granted stream is not live.
C19_GrantAfterTeardownStartsNothing ==
  [][ (~connected /\ last'.op = "media-granted") =>
        /\ ~isRecording'
        /\ \A i \in 1..Len(timers') : ~timers'[i]
        /\ ~streams'[Len(streams')].live ]_vars

\* C20: every acquired stream is stopped once its session has ended or
\* aborted: a stream that is still live has a recorder that is recording or
\* has its stop event to come (a live stream with no such recorder is never
\* stopped by any later step).
C20_StreamReleased ==
  \A s \in 1..Len(streams) :
    streams[s].live =>
      \E r \in 1..Len(recorders) :
        recorders[r].stream = s /\ recorders[r].phase # "done"

\* --------------------------------------------------------- C21 .. C27
\* the audio blobs built so far: those being read and those sent
Blobs == readers \o audioSent

BlobsBy(r) == {i \in 1..Len(Blobs) : Blobs[i].by = r}

\* recorder r was stopped by an explicit stop and has fired its stop event
\* after it delivered data
HandedOff(r) ==
  /\ recorders[r].onstop = "process"
  /\ recorders[r].phase = "done"
  /\ recorders[r].delivered

\* C21: an explicit stop of a raw-mode session that buffered a chunk produces
\* exactly one audio value, built from that session's own chunks and encoding,
\* and no text turn: once the stopped recorder has fired its stop event there
\* is one blob of it, holding its chunk alone, also when a new session was
\* started before that event.
C21_StopHandsOffOwnAudio ==
  \A r \in 1..Len(recorders) :
    HandedOff(r) =>
      /\ Cardinality(BlobsBy(r)) = 1
      /\ \A i \in BlobsBy(r) :
           Blobs[i].chunks = <<r>> /\ Blobs[i].format = recorders[r].mimeType
      /\ audioInputMode = "raw" => (sent = << >> /\ messages = << >>)

\* a raw-mode session is capturing: this step of #stopRecording acts on it
RawCapturing == isRecording /\ ~speechRecognition /\ mediaRecorder # 0

\* C22: cancelling a raw-mode session (the element is removed while it
\* captures) builds no audio value, leaves the chunk buffer empty, stops the
\* tick timer and the recorder and leaves the capturing flag false; the
\* recorder keeps the stop handler that sends nothing, and the stop event of a
\* recorder with that handler builds no audio value.
C22_CancelDiscards ==
  [][ /\ (last'.op = "detach" /\ RawCapturing) =>
           /\ ~isRecording'
           /\ audioChunks' = << >>
           /\ recordingTimer' = 0
           /\ recordingTimer # 0 => ~timers'[recordingTimer]
           /\ recorders'[mediaRecorder].phase # "recording"
           /\ recorders'[mediaRecorder].onstop = "release"
           /\ readers' = readers /\ audioSent' = audioSent
      /\ (/\ last'.op = "onstop"
          /\ recorderTasks # << >>
          /\ recorders[Head(recorderTasks)].onstop = "release") =>
           readers' = readers /\ audioSent' = audioSent ]_vars

C22_Witness ==
  /\ last.op = "detach"
  /\ ~isRecording
  /\ mediaRecorder # 0
  /\ recorderTasks = <<mediaRecorder>>
  /\ recorders[mediaRecorder].onstop = "release"
  /\ \A i \in 1..Len(timers) : ~timers[i]

\* a transcribe-mode session is capturing
Dictating == isRecording /\ speechRecognition

\* the recognizer of the session that this step ended is stopped, without its
\* onend handler, and _speechRecognition is null
SessionDestroyed ==
  /\ ~speechRecognition'
  /\ ~isRecording'
  /\ recognizers'[Len(recognizers)].phase # "listening"
  /\ ~recognizers'[Len(recognizers)].onend

\* C23: an explicit stop of a transcribe-mode session whose displayed text is
\* not blank submits that text, trimmed, once through #sendInput (one user
\* turn); with a blank displayed text nothing is submitted; either way no
\* audio value is built, the session is destroyed and the capturing flag is
\* false.
C23_DictationStopSubmitsText ==
  [][ (last'.op = "toggle-recording" /\ Dictating) =>
        /\ IF Trim(transcribedText) # EmptyText
           THEN TurnAppended(Trim(transcribedText))
           ELSE NothingSubmitted
        /\ readers' = readers /\ audioSent' = audioSent
        /\ SessionDestroyed ]_vars

C23_Witness ==
  /\ last.op = "toggle-recording"
  /\ last.attempt = "sent"
  /\ sent = <<M>>
  /\ messages = <<NewElement([role |-> "user", content |-> M]), Placeholder>>
  /\ finalTranscript = EmptyText
  /\ recognizers = <<[NewRecognizer EXCEPT !.phase = "stopping", !.onend = FALSE]>>
  /\ ~isRecording /\ ~speechRecognition
  /\ audioSent = << >>

\* recognizer k after its end event: listening again after one more start(),
\* or ended
Restarted(k) ==
  [recognizers[k] EXCEPT !.phase = "listening", !.started = @ + 1, !.ended = @ + 1]

Ended(k) == [recognizers[k] EXCEPT !.phase = "ended", !.ended = @ + 1]

\* C24: the end event of a recognizer restarts it exactly when its session is
\* still capturing (it is _speechRecognition and the capturing flag is true);
\* the end event of a recognizer whose session was stopped, cancelled, ended
\* by an error or torn down starts no recognizer, also when a new session is
\* capturing by then.
C24_EndRestartsOnlyWhileCapturing ==
  [][ last'.op = "onend" =>
        \E k \in 1..Len(recognizers) :
          recognizers' =
            [recognizers EXCEPT ![k] = IF Dictating /\ k = Len(recognizers)
                                       THEN Restarted(k) ELSE Ended(k)] ]_vars

\* the recognizer of the second session was restarted by its end event, and
\* the late end event of the first, stopped one restarted nothing
C24_Witness ==
  /\ last.op = "onend"
  /\ Len(recognizers) = 2
  /\ recognizers[1].phase = "ended" /\ recognizers[1].started = 1
  /\ recognizers[2].phase = "listening" /\ recognizers[2].started = 2
  /\ isRecording

\* C25: a recognizer error during a transcribe-mode session cancels it:
\* nothing is submitted, whatever text was displayed, the transcript and the
\* input's disabled state are as before, the capturing flag is false and the
\* session is destroyed.
C25_ErrorCancelsDictation ==
  [][ (last'.op = "onerror" /\ Dictating) =>
        /\ NothingSubmitted
        /\ last'.attempt = "none"
        /\ textarea' = textarea
        /\ readers' = readers /\ audioSent' = audioSent
        /\ SessionDestroyed ]_vars

\* the error came when speech had been confirmed and was displayed
C25_Witness ==
  /\ last.op = "onerror"
  /\ finalTranscript = M
  /\ sent = << >> /\ messages = << >> /\ ~disabled
  /\ ~isRecording /\ ~speechRecognition

\* transcribe mode is asked for and the platform has no speech recognition
Fallback == audioInputMode = "transcribe" /\ ~speechSupported

\* what a click on the microphone button does when the mode is "raw"
RawToggle == toggleRecording([Cur EXCEPT !.audioInputMode = "raw"])

\* C26: in transcribe mode on a platform without speech recognition a start
\* begins a raw-mode session: the microphone button does at every moment what
\* it does in raw mode (start asks for the microphone, stop hands the recorder
\* over to the sending stop handler), no recognizer is ever created and no
\* text is ever submitted by the capture.
C26_FallbackIsRawMode ==
  Fallback =>
    /\ toggleRecording(Cur) = [RawToggle EXCEPT !.audioInputMode = audioInputMode]
    /\ recognizers = << >>
    /\ ~speechRecognition
    /\ sent = << >>

\* in the fallback one session was stopped and its audio sent, and a second
\* one was cancelled by the removal of the element
C26_Witness ==
  /\ Fallback
  /\ last.op = "detach"
  /\ Len(audioSent) = 1 /\ audioSent[1].chunks = <<1>>
  /\ Len(recorders) = 2
  /\ recorders[2].onstop = "release" /\ recorders[2].phase = "data"
  /\ audioChunks = << >>

\* C27: when getUserMedia rejects, the failure is caught and the start leaves
\* nothing behind: the capturing flag, the recorders, the tick timers, the
\* chunk buffer, the audio values and the submissions are as they were, so a
\* widget whose only start failed is idle, with the flag false and no
\* recorder, timer, chunk, submission or audio value.
C27_FailedStartStaysIdle ==
  [][ last'.op = "media-denied" =>
        /\ ~last'.err
        /\ pendingMedia' = pendingMedia - 1
        /\ UNCHANGED <<isRecording, streams, recorders, mediaRecorder, recorderTasks,
                       timers, recordingTimer, audioChunks, readers, audioSent,
                       sent, messages, disabled>>
        /\ starts = 1 =>
             /\ ~isRecording'
             /\ recorders' = << >> /\ timers' = << >> /\ audioChunks' = << >>
             /\ readers' = << >> /\ audioSent' = << >> /\ sent' = << >> ]_vars

C27_Witness ==
  /\ last.op = "media-denied"
  /\ starts = 1 /\ pendingMedia = 0
  /\ ~isRecording
  /\ recorders = << >> /\ timers = << >> /\ streams = << >>

\* --------------------------------------------------------------- C28
\* the submit decision for the recorded activation: a primary modifier
\* forces a submit, else the secondary modifier forces a fill, else the
\* element's own flag decides
Decision ==
  \/ activation.metaKey
  \/ activation.ctrlKey
  \/ ~activation.altKey /\ activation.submit

\* C28: for the activation of a suggestion, #sendInput is called exactly
\* when a primary modifier (meta or ctrl) is held, or else when the
\* secondary modifier (alt) is not held and the element's own flag is set;
\* the textarea is focused exactly when #sendInput is not called.
C28_SuggestionDecision ==
  (last.op = "suggestion" /\ activation.suggestion # EmptyText) =>
    /\ (last.attempt # "none") <=> Decision
    /\ activation.focused <=> ~Decision

\* alt and meta held on an element that does not submit by itself: submitted
C28_Witness ==
  /\ last.op = "suggestion"
  /\ activation.suggestion = M
  /\ activation.metaKey /\ activation.altKey /\ ~activation.submit /\ ~activation.ctrlKey
  /\ last.attempt = "sent"
  /\ ~activation.focused
  /\ sent = <<M>>

\* ------------------------------------------------------------ C29, C30
\* the steps of the action buttons of a message, and of what they start
ThumbOps == {"thumbs-up", "thumbs-down"}

ActionOps ==
  ThumbOps \cup {"copy", "copied", "copy-failed", "regenerate", "share", "more",
                 "close-menu", "menu-click"}

Polarity(op) == IF op = "thumbs-up" THEN "positive" ELSE "negative"

\* the Transcript Store's view of the messages: without the buttons' UI state
Transcript(ms) ==
  [i \in 1..Len(ms) |->
     [role |-> ms[i].role, content |-> ms[i].content, streaming |-> ms[i].streaming]]

FeedbackRecord(ms, i, p) ==
  [input  |-> "message_feedback",
   detail |-> [messageIndex |-> i - 1, content |-> ms[i].content, feedback |-> p]]

\* C29: a thumbs click on a message leaves its feedback state null if the
\* clicked polarity was the state and the clicked polarity otherwise, changes
\* no other message, and sends one feedback value of that polarity exactly when
\* the new state is not null
C29_FeedbackToggles ==
  [][last'.op \in ThumbOps =>
       \E i \in 1..Len(messages) :
         LET p == Polarity(last'.op)
             given == IF messages[i].feedbackGiven = p THEN "null" ELSE p
         IN  /\ messages' = [messages EXCEPT ![i].feedbackGiven = given]
             /\ actionsSent' = IF given # "null"
                               THEN << FeedbackRecord(messages, i, p) >>
                               ELSE << >>]_vars

\* thumbs-up on a message that was positive: cleared, nothing sent
C29_Witness ==
  /\ last.op = "thumbs-up"
  /\ Target # 0
  /\ messages[Target].feedbackGiven = "null"
  /\ actionsSent = << >>

\* C30: no step of a message action changes the transcript, the input's
\* enabled state, the input's text or what was submitted, and the more button
\* and the items of its menu send no action value, at once or later
C30_ActionsLeaveTranscript ==
  [][last'.op \in ActionOps =>
       /\ Transcript(messages') = Transcript(messages)
       /\ disabled' = disabled
       /\ textarea' = textarea
       /\ sent' = sent
       /\ last'.op \in {"more", "close-menu", "menu-click"} =>
            actionsSent' = << >> /\ clipboard' = clipboard]_vars

\* a copy item of the open menu was clicked: the menu is closed, nothing is sent
C30_Witness ==
  /\ last.op = "menu-click"
  /\ Target # 0
  /\ ~messages[Target].showMoreMenu
  /\ actionsSent = << >>
  /\ clipboard = << >>

\* ------------------------------------------------------------ C31, C32
\* C31: a message appended with its own message-actions value has the enabled
\* actions of that value, whatever value the container has
C31_MessageValueOverrides ==
  [][\A m \in ConfiguredMessages :
       OnAppend(m) =>
         \A a \in ALL_MESSAGE_ACTIONS :
           isActionEnabled(messages'[Len(messages')].messageActions, a)
             = isActionEnabled(m.message_actions, a)]_vars

\* C32: every message of role user has the content type semi-markdown
C32_UserMessagesSemiMarkdown ==
  \A i \in 1..Len(messages) :
    messages[i].role = "user" => messages[i].contentType = "semi-markdown"

\* ------------------------------------------------------------------ C33
\* C33: while the container is attached and has rendered, its own listeners
\* and exactly one window click listener are registered; while it is detached
\* none is; the window never has two click listeners of the container
C33_ListenersFollowAttachment ==
  /\ (container.attached /\ container.updated) =>
       (container.listening /\ Cardinality(container.windowClick) = 1)
  /\ ~container.attached =>
       (~container.listening /\ container.windowClick = {})
  /\ Cardinality(container.windowClick) <= 1

\* ------------------------------------------------------------------ C34
\* C34: only the tail message can have the streaming flag, so at most one
\* message has it
C34_OnlyTailStreams ==
  \A i \in 1..Len(messages) : messages[i].streaming => i = Len(messages)

\* ------------------------------------------------------------------ C35
\* C35: a user message that has content keeps it in every step that leaves
\* it in the transcript (a message changes only as the tail, and leaves only
\* when the transcript is cleared)
C35_UserContentKept ==
  [][\A i \in 1..Len(messages) :
       (/\ messages[i].role = "user"
        /\ messages[i].content # EmptyText
        /\ i <= Len(messages')) =>
         messages'[i].content = messages[i].content]_vars

\* ------------------------------------------------------------------ C36
\* C36: a result or an error that a stopped recognizer delivers while a later
\* session is capturing changes neither the accumulated transcript nor the
\* displayed text nor the capturing state of that session
C36_LateCallbacksIgnored ==
  [][(last'.op \in {"late-result", "late-error"} /\ Dictating) =>
       /\ finalTranscript' = finalTranscript
       /\ transcribedText' = transcribedText
       /\ isRecording' = isRecording
       /\ speechRecognition' = speechRecognition
       /\ recognizers' = recognizers]_vars

\* ------------------------------------------------------------------ C37
\* the steps that call setInputValue(v, {submit: true})
SubmitValueOps == {"update-user-input", "suggestion", "toggle-recording"}

\* C37: after setInputValue(v, submit = true) the textarea holds the text it
\* held before the call, whether the submission was made or refused
C37_DraftPreserved ==
  [][(last'.op \in SubmitValueOps /\ last'.submit) => textarea' = textarea]_vars

\* ------------------------------------------------------------------ C38
\* C38: a key pressed during an IME composition, or Enter with Shift, submits
\* nothing; Enter without Shift outside a composition submits the text of the
\* textarea if and only if it is not blank and the input is enabled
C38_EnterSubmits ==
  [][last'.op = "keydown" =>
       IF last'.key = "Enter" /\ ~isComposing
       THEN IF Trim(textarea) # EmptyText /\ ~disabled
            THEN last'.attempt = "sent" /\ sent' = Append(sent, textarea)
            ELSE last'.attempt # "sent" /\ sent' = sent
       ELSE /\ last'.attempt = "none"
            /\ sent' = sent
            /\ messages' = messages
            /\ textarea' = textarea]_vars

\* Enter is pressed during a composition, with text in an enabled input:
\* nothing was submitted
C38_Witness ==
  /\ last.op = "keydown"
  /\ last.key = "Enter"
  /\ isComposing
  /\ Trim(textarea) # EmptyText
  /\ ~disabled
  /\ last.attempt = "none"
  /\ sent = << >>

\* ------------------------------------------------------------------ C39
\* C39: the send button is disabled exactly when the input is disabled or
\* the text of the textarea is blank
C39_ButtonFollowsInput ==
  buttonDisabled <=> (disabled \/ Trim(textarea) = EmptyText)

\* a draft was put back behind a submission: the input is disabled, the
\* textarea is not blank and the button is disabled
C39_Witness ==
  /\ last.op \in SubmitValueOps
  /\ last.attempt = "sent"
  /\ disabled
  /\ Trim(textarea) # EmptyText
  /\ buttonDisabled

====
